---- MODULE Spec2Model ----
(***************************************************************************)
(* firm-ai: discovery and resolution of tool plugins registered as entry   *)
(* points (src/src/firm_ai/discovery.py), the Tool contract                *)
(* (src/src/firm_ai/plugin.py) and the commands of the wrapper             *)
(* (src/src/firm_ai/cli.py).                                               *)
(*                                                                         *)
(* Python values are records with a field cls; an Optional[str] is the     *)
(* empty sequence (None, or a missing attribute read through getattr with  *)
(* default None) or a one-element sequence holding the string.  A message  *)
(* is the sequence of the parts an f-string concatenates.  The outcome of  *)
(* an evaluation is Ok(value) or Raise(type, msg).                         *)
(***************************************************************************)
EXTENDS Integers, Sequences, FiniteSets, TLC

VARIABLES installed, prev, last

vars == <<installed, prev, last>>

\* Longest sequence of installed (entry point, distribution) pairs.
MaxLen == 3

ENTRYPOINT_GROUP == "firm_ai.tools"

-----------------------------------------------------------------------------
(* Python values and outcomes *)

None == <<>>
Some(s) == <<s>>
\* bool(x) of an Optional[str]: None and "" are falsy.
TruthyOpt(o) == o # None /\ o[1] # ""
\* bool(s) of a str.
Truthy(s) == s # ""

NoneValue == [cls |-> "NoneType"]
IntValue == [cls |-> "int"]
ObjectValue == [cls |-> "object"]
Function(id) == [cls |-> "function", id |-> id]

Callable(v) == v.cls = "function"

Ok(v) == [ok |-> TRUE, value |-> v]
Raise(type, msg) == [ok |-> FALSE, exc |-> [type |-> type, msg |-> msg]]

-----------------------------------------------------------------------------
(* plugin.py: the Tool contract *)

NameError == <<"Tool.name must be non-empty">>
DescriptionError == <<"Tool.description must be non-empty">>
RunError == <<"Tool.run must be callable">>

\* a variant of ToolNew that leaves run unchecked
ToolNewNoRunCheck(name, description, run) ==
  IF ~Truthy(name) THEN Raise("ValueError", NameError)
  ELSE IF ~Truthy(description) THEN Raise("ValueError", DescriptionError)
  ELSE Ok([cls |-> "Tool", name |-> name, description |-> description, run |-> run])

\* Tool(name, description, run): the dataclass constructor followed by
\* __post_init__; the checks run in this order and the first failing raises.
ToolNew(name, description, run) ==
  IF ~Truthy(name) THEN Raise("ValueError", NameError)
  ELSE IF ~Truthy(description) THEN Raise("ValueError", DescriptionError)
  ELSE IF ~Callable(run) THEN Raise("TypeError", RunError)
  ELSE Ok([cls |-> "Tool", name |-> name, description |-> description, run |-> run])

IsTool(v) == v.cls = "Tool"

-----------------------------------------------------------------------------
(* Entry points: what an installed package's metadata points at.           *)
(* target.kind says what the referenced module attribute is:               *)
(*   tool            a module-level Tool(name, description, run)           *)
(*   factory         def f(): return Tool(name, description, run)          *)
(*   factory_nontool def f(): return object()                              *)
(*   factory_raises  def f(): raise RuntimeError("factory boom")           *)
(*   needs_args      def f(args): ...   (not callable with no argument)    *)
(*   object          object()                                              *)
(*   load_raises     importing the module raises RuntimeError("boom")      *)

ToolTarget(kind, name, description, run) ==
  [kind |-> kind, name |-> name, description |-> description, run |-> run]
OtherTarget(kind) == [kind |-> kind]

EntryPoint(name, value, group, target) ==
  [name |-> name, value |-> value, group |-> group, target |-> target]

\* str(ep) of importlib.metadata.EntryPoint
StrEp(ep) == <<"EntryPoint(name=", ep.name, ", value=", ep.value, ", group=", ep.group, ")">>

\* ep.load(): import the module and read the attribute.
Load(ep) ==
  LET t == ep.target IN
  CASE t.kind = "load_raises" -> Raise("RuntimeError", <<"boom">>)
    [] t.kind = "tool" -> ToolNew(t.name, t.description, t.run)
    [] t.kind = "object" -> Ok(ObjectValue)
    [] OTHER -> Ok([cls |-> "function", id |-> ep.value, target |-> t])

\* loaded(): the call of a loaded function with no argument.
Call(fn) ==
  LET t == fn.target IN
  CASE t.kind = "factory" -> ToolNew(t.name, t.description, t.run)
    [] t.kind = "factory_nontool" -> Ok(ObjectValue)
    [] t.kind = "factory_raises" -> Raise("RuntimeError", <<"factory boom">>)
    [] t.kind = "needs_args" ->
         Raise("TypeError", <<fn.id, "() missing 1 required positional argument">>)

-----------------------------------------------------------------------------
(* discovery.py: _resolve_tool *)

ShapeError(ep) ==
  Raise("TypeError",
        <<"Entry point '", ep.name, "' must resolve to a Tool or a callable returning Tool">>)

\* a variant of ResolveTool that probes the factory and calls it again
ResolveToolCallsTwice(ep) ==
  LET loaded == Load(ep) IN
  IF ~loaded.ok THEN [res |-> loaded, calls |-> 0]
  ELSE IF Callable(loaded.value)
    THEN LET tool == Call(loaded.value) IN
         IF tool.ok /\ IsTool(tool.value) THEN [res |-> Call(loaded.value), calls |-> 2]
         ELSE IF ~tool.ok THEN [res |-> tool, calls |-> 1]
         ELSE [res |-> ShapeError(ep), calls |-> 1]
  ELSE IF IsTool(loaded.value) THEN [res |-> Ok(loaded.value), calls |-> 0]
  ELSE [res |-> ShapeError(ep), calls |-> 0]

\* a variant of ResolveTool that trusts what the factory returns
ResolveToolUnchecked(ep) ==
  LET loaded == Load(ep) IN
  IF ~loaded.ok THEN [res |-> loaded, calls |-> 0]
  ELSE IF IsTool(loaded.value) THEN [res |-> Ok(loaded.value), calls |-> 0]
  ELSE IF Callable(loaded.value) THEN [res |-> Call(loaded.value), calls |-> 1]
  ELSE [res |-> ShapeError(ep), calls |-> 0]

\* res is what _resolve_tool returns or raises; calls counts the invocations
\* of the loaded value.
ResolveTool(ep) ==
  LET loaded == Load(ep) IN
  IF ~loaded.ok THEN [res |-> loaded, calls |-> 0]
  ELSE IF IsTool(loaded.value) THEN [res |-> Ok(loaded.value), calls |-> 0]
  ELSE IF Callable(loaded.value)
    THEN LET tool == Call(loaded.value) IN
         IF ~tool.ok THEN [res |-> tool, calls |-> 1]
         ELSE IF IsTool(tool.value) THEN [res |-> tool, calls |-> 1]
         ELSE [res |-> ShapeError(ep), calls |-> 1]
  ELSE [res |-> ShapeError(ep), calls |-> 0]

-----------------------------------------------------------------------------
(* discovery.py: ToolLoadError and the except clauses *)

ToolLoadError(name, entry_point, error) ==
  [name |-> name, entry_point |-> entry_point, error |-> error]

\* str(exc) of an exception built from one message
StrExc(exc) == exc.msg

\* a variant of ErrorOf that names the error by the entry point's value
ErrorOfNamedByValue(ep, exc) == ToolLoadError(ep.value, StrEp(ep), StrExc(exc))

\* ToolLoadError(name=ep.name, entry_point=str(ep), error=str(exc))
ErrorOf(ep, exc) == ToolLoadError(ep.name, StrEp(ep), StrExc(exc))

\* the classes of the model that derive from Exception
ExceptionClasses == {"RuntimeError", "ValueError", "TypeError"}

\* a variant of Catches: except ValueError
CatchesValueErrorOnly(exc) == exc.type = "ValueError"

\* except Exception
Catches(exc) == exc.type \in ExceptionClasses

-----------------------------------------------------------------------------
(* discovery.py: the two enumerations of the installed metadata *)

\* _iter_entry_points_with_dist(): every (ep, dist) of the group, in the
\* order the distributions are enumerated
IterEntryPointsWithDist ==
  SelectSeq(installed, LAMBDA p : p.ep.group = ENTRYPOINT_GROUP)

\* _select_entry_points(): the entry points of the group
SelectEntryPoints ==
  [i \in 1..Len(IterEntryPointsWithDist) |-> IterEntryPointsWithDist[i].ep]

-----------------------------------------------------------------------------
(* discovery.py: load_tools *)

EmptyMap == [n \in {} |-> None]
Put(m, k, v) == [n \in DOMAIN m \cup {k} |-> IF n = k THEN v ELSE m[n]]

DuplicateError(name) == Raise("ValueError", <<"Duplicate tool name", ": ", name>>)

\* a variant of NewScan: errors kept in a list that outlives the call
StaleScan ==
  [tools |-> EmptyMap,
   errors |-> IF last.key.op \in {"load_tools", "resolve_tool_distribution"}
              THEN last.ret.errors ELSE <<>>,
   raised |-> None, loaded |-> <<>>, done |-> FALSE, name |-> None]

\* tools = {} and errors = [] of a call; raised holds an exception that left
\* the call, loaded the positions of the entry points whose load() ran, done
\* says the loop was left, name is the name the loop returned
NewScan ==
  [tools |-> EmptyMap, errors |-> <<>>, raised |-> None, loaded |-> <<>>,
   done |-> FALSE, name |-> None]

\* a variant of LoadToolsBody without the duplicate check: the last wins
LoadToolsBodyLastWins(acc, ep, i) ==
  LET r == ResolveTool(ep).res
      seen == [acc EXCEPT !.loaded = Append(@, i)]
  IN IF r.ok THEN [seen EXCEPT !.tools = Put(@, r.value.name, r.value)]
     ELSE IF Catches(r.exc) THEN [seen EXCEPT !.errors = Append(@, ErrorOf(ep, r.exc))]
     ELSE [seen EXCEPT !.raised = Some(r.exc), !.done = TRUE]

\* one iteration of the for loop of load_tools, on the i-th entry point
LoadToolsBody(acc, ep, i) ==
  LET r == ResolveTool(ep).res
      tried == IF r.ok /\ r.value.name \in DOMAIN acc.tools
               THEN DuplicateError(r.value.name) ELSE r
      seen == [acc EXCEPT !.loaded = Append(@, i)]
  IN IF tried.ok THEN [seen EXCEPT !.tools = Put(@, tried.value.name, tried.value)]
     ELSE IF Catches(tried.exc)
       THEN [seen EXCEPT !.errors = Append(@, ErrorOf(ep, tried.exc))]
     ELSE [seen EXCEPT !.raised = Some(tried.exc), !.done = TRUE]

RECURSIVE LoadToolsLoop(_, _, _)
LoadToolsLoop(eps, i, acc) ==
  IF i > Len(eps) \/ acc.done THEN acc
  ELSE LoadToolsLoop(eps, i + 1, LoadToolsBody(acc, eps[i], i))

\* load_tools() over the entry points eps
LoadToolsOf(eps) ==
  LET acc == LoadToolsLoop(eps, 1, NewScan)
  IN [raised |-> acc.raised, tools |-> acc.tools, errors |-> acc.errors,
      loaded |-> acc.loaded]

LoadTools == LoadToolsOf(SelectEntryPoints)

-----------------------------------------------------------------------------
(* Distributions: name and version are Optional[str] (None also stands for *)
(* a missing attribute); metadata is the mapping dist.metadata, and        *)
(* readable says whether reading it succeeds.                              *)

Distribution(name, version, readable, fields) ==
  [name |-> name, version |-> version,
   metadata |-> [readable |-> readable, fields |-> fields]]

\* getattr(dist, attr, None)
GetAttr(dist, attr) == IF attr = "name" THEN dist.name ELSE dist.version

\* dist.metadata.get(key): reading the metadata of a distribution whose
\* metadata cannot be read raises
MetadataGet(dist, key) ==
  IF ~dist.metadata.readable THEN Raise("TypeError", <<"metadata unreadable">>)
  ELSE IF key \in DOMAIN dist.metadata.fields THEN Ok(Some(dist.metadata.fields[key]))
  ELSE Ok(None)

-----------------------------------------------------------------------------
(* discovery.py: resolve_tool_distribution *)

\* a variant of ResolveDistBody that notes the name and scans on
ResolveDistBodyNoReturn(acc, pair, i, tool_name) ==
  LET r == ResolveTool(pair.ep).res
      seen == [acc EXCEPT !.loaded = Append(@, i)]
      direct == GetAttr(pair.dist, "name")
      meta == MetadataGet(pair.dist, "Name")
  IN IF ~r.ok
       THEN IF Catches(r.exc) THEN [seen EXCEPT !.errors = Append(@, ErrorOf(pair.ep, r.exc))]
            ELSE [seen EXCEPT !.raised = Some(r.exc), !.done = TRUE]
     ELSE IF r.value.name # tool_name THEN seen
     ELSE IF TruthyOpt(direct) THEN [seen EXCEPT !.name = direct]
     ELSE IF meta.ok THEN [seen EXCEPT !.name = meta.value]
     ELSE IF Catches(meta.exc)
       THEN [seen EXCEPT !.errors = Append(@, ErrorOf(pair.ep, meta.exc))]
     ELSE [seen EXCEPT !.raised = Some(meta.exc), !.done = TRUE]

\* a variant of ResolveDistBody that gives up at the first failure
ResolveDistBodyAborts(acc, pair, i, tool_name) ==
  LET r == ResolveTool(pair.ep).res
      seen == [acc EXCEPT !.loaded = Append(@, i)]
      direct == GetAttr(pair.dist, "name")
      meta == MetadataGet(pair.dist, "Name")
  IN IF ~r.ok
       THEN [seen EXCEPT !.errors = Append(@, ErrorOf(pair.ep, r.exc)), !.done = TRUE]
     ELSE IF r.value.name # tool_name THEN seen
     ELSE IF TruthyOpt(direct) THEN [seen EXCEPT !.name = direct, !.done = TRUE]
     ELSE IF meta.ok THEN [seen EXCEPT !.name = meta.value, !.done = TRUE]
     ELSE [seen EXCEPT !.errors = Append(@, ErrorOf(pair.ep, meta.exc))]

\* a variant of ResolveDistBody without the fallback to the metadata
ResolveDistBodyNoFallback(acc, pair, i, tool_name) ==
  LET r == ResolveTool(pair.ep).res
      seen == [acc EXCEPT !.loaded = Append(@, i)]
      direct == GetAttr(pair.dist, "name")
  IN IF ~r.ok
       THEN IF Catches(r.exc) THEN [seen EXCEPT !.errors = Append(@, ErrorOf(pair.ep, r.exc))]
            ELSE [seen EXCEPT !.raised = Some(r.exc), !.done = TRUE]
     ELSE IF r.value.name # tool_name THEN seen
     ELSE [seen EXCEPT !.name = direct, !.done = TRUE]

\* one iteration of the for loop, on the i-th pair; done /\ raised = None
\* says the loop returned name
ResolveDistBody(acc, pair, i, tool_name) ==
  LET r == ResolveTool(pair.ep).res
      seen == [acc EXCEPT !.loaded = Append(@, i)]
      direct == GetAttr(pair.dist, "name")
      meta == MetadataGet(pair.dist, "Name")
  IN IF ~r.ok
       THEN IF Catches(r.exc) THEN [seen EXCEPT !.errors = Append(@, ErrorOf(pair.ep, r.exc))]
            ELSE [seen EXCEPT !.raised = Some(r.exc), !.done = TRUE]
     ELSE IF r.value.name # tool_name THEN seen
     ELSE IF TruthyOpt(direct) THEN [seen EXCEPT !.name = direct, !.done = TRUE]
     ELSE IF meta.ok THEN [seen EXCEPT !.name = meta.value, !.done = TRUE]
     ELSE IF Catches(meta.exc)
       THEN [seen EXCEPT !.errors = Append(@, ErrorOf(pair.ep, meta.exc))]
     ELSE [seen EXCEPT !.raised = Some(meta.exc), !.done = TRUE]

RECURSIVE ResolveDistLoop(_, _, _, _)
ResolveDistLoop(pairs, i, acc, tool_name) ==
  IF i > Len(pairs) \/ acc.done THEN acc
  ELSE ResolveDistLoop(pairs, i + 1, ResolveDistBody(acc, pairs[i], i, tool_name), tool_name)

\* resolve_tool_distribution(tool_name) over the pairs; returned says the
\* loop returned (line 85) instead of running out (line 94)
ResolveToolDistributionOf(pairs, tool_name) ==
  LET acc == ResolveDistLoop(pairs, 1, NewScan, tool_name)
  IN [raised |-> acc.raised, name |-> acc.name, errors |-> acc.errors,
      loaded |-> acc.loaded, returned |-> acc.done /\ acc.raised = None]

ResolveToolDistribution(tool_name) ==
  ResolveToolDistributionOf(IterEntryPointsWithDist, tool_name)

-----------------------------------------------------------------------------
(* load_tools_with_versions and ToolInfo: called by the tests              *)
(* (src/tests/test_discovery.py 79-105), defined in no source file at      *)
(* hand; written from sections 3 and 4.4 of the specification.             *)

UnknownVersion == ""

ToolInfo(tool, version) == [tool |-> tool, version |-> version]

\* a variant of VersionOf without the fallback to the metadata
VersionOfAttributeOnly(dist) ==
  LET direct == GetAttr(dist, "version")
  IN IF direct # None THEN direct[1] ELSE UnknownVersion

\* the version of a distribution: its version attribute when not None,
\* else the "Version" key of its metadata, else the sentinel
VersionOf(dist) ==
  LET direct == GetAttr(dist, "version")
      meta == MetadataGet(dist, "Version")
  IN IF direct # None THEN direct[1]
     ELSE IF meta.ok /\ meta.value # None THEN meta.value[1]
     ELSE UnknownVersion

WithVersionsBody(acc, pair, i) ==
  LET r == ResolveTool(pair.ep).res
      tried == IF r.ok /\ r.value.name \in DOMAIN acc.tools
               THEN DuplicateError(r.value.name) ELSE r
      seen == [acc EXCEPT !.loaded = Append(@, i)]
  IN IF tried.ok
       THEN [seen EXCEPT !.tools = Put(@, tried.value.name,
                                       ToolInfo(tried.value, VersionOf(pair.dist)))]
     ELSE IF Catches(tried.exc)
       THEN [seen EXCEPT !.errors = Append(@, ErrorOf(pair.ep, tried.exc))]
     ELSE [seen EXCEPT !.raised = Some(tried.exc), !.done = TRUE]

RECURSIVE WithVersionsLoop(_, _, _)
WithVersionsLoop(pairs, i, acc) ==
  IF i > Len(pairs) \/ acc.done THEN acc
  ELSE WithVersionsLoop(pairs, i + 1, WithVersionsBody(acc, pairs[i], i))

LoadToolsWithVersions ==
  LET acc == WithVersionsLoop(IterEntryPointsWithDist, 1, NewScan)
  IN [raised |-> acc.raised, tools |-> acc.tools, errors |-> acc.errors,
      loaded |-> acc.loaded]

-----------------------------------------------------------------------------
(* The inputs: what can be installed, and what a plugin can declare *)

ToolNames == {"", "a", "b"}
Descriptions == {"", "d1", "d2"}
Runs == {NoneValue, IntValue, Function("f")}

\* every target a plugin module can declare, for the resolver
AllTargets ==
  {ToolTarget(k, n, d, r) : k \in {"tool", "factory"}, n \in ToolNames,
                            d \in Descriptions, r \in Runs}
  \cup {OtherTarget(k) : k \in {"factory_nontool", "factory_raises", "needs_args",
                                "object", "load_raises"}}

AllEntryPoints ==
  {EntryPoint(nm, "plugin.tools:target", ENTRYPOINT_GROUP, t) :
     nm \in {"one", "two"}, t \in AllTargets}

DistOne == Distribution(Some("pkg-one"), Some("1.2.3"), TRUE,
                        [k \in {"Name", "Version"} |->
                           IF k = "Name" THEN "pkg-one" ELSE "1.2.3"])
\* no name and no version attribute: both come from the metadata
DistTwo == Distribution(None, None, TRUE,
                        [k \in {"Name", "Version"} |->
                           IF k = "Name" THEN "pkg-two" ELSE "9.9.9"])
\* no name, no version, and a metadata mapping without the keys
DistBare == Distribution(None, None, TRUE, [k \in {} |-> ""])
\* an empty name and a metadata that cannot be read
DistBroken == Distribution(Some(""), None, FALSE, [k \in {} |-> ""])

F == Function("f")

EpA == EntryPoint("one", "pkg_one.tools:TOOL", ENTRYPOINT_GROUP,
                  ToolTarget("tool", "a", "d1", F))
EpA2 == EntryPoint("two", "pkg_two.tools:make", ENTRYPOINT_GROUP,
                   ToolTarget("factory", "a", "d2", F))
EpB == EntryPoint("bee", "pkg_two.tools:BEE", ENTRYPOINT_GROUP,
                  ToolTarget("tool", "b", "d1", F))
EpBoom == EntryPoint("bad", "pkg_bad:TOOL", ENTRYPOINT_GROUP, OtherTarget("load_raises"))
EpObject == EntryPoint("obj", "pkg_bad:THING", ENTRYPOINT_GROUP, OtherTarget("object"))
EpFactoryRaises ==
  EntryPoint("fr", "pkg_bad:make", ENTRYPOINT_GROUP, OtherTarget("factory_raises"))
EpFactoryBadTool == EntryPoint("fb", "pkg_bad:make_bad", ENTRYPOINT_GROUP,
                               ToolTarget("factory", "", "d1", F))
\* an entry point of another group, which both enumerations skip
EpScript == EntryPoint("one", "pkg_one.cli:main", "console_scripts",
                       OtherTarget("needs_args"))

Pair(ep, dist) == [ep |-> ep, dist |-> dist]

\* the (entry point, distribution) pairs an installation can add
Catalogue ==
  {Pair(EpA, DistOne), Pair(EpA, DistBare), Pair(EpA, DistBroken),
   Pair(EpA2, DistTwo), Pair(EpA2, DistOne),
   Pair(EpB, DistTwo), Pair(EpB, DistBroken),
   Pair(EpBoom, DistOne), Pair(EpObject, DistTwo), Pair(EpFactoryRaises, DistOne),
   Pair(EpFactoryBadTool, DistBare), Pair(EpScript, DistOne)}

\* the tool names asked of resolve_tool_distribution
AskedNames == {"a", "b"}

-----------------------------------------------------------------------------
(* The state: installed is the installed metadata, in enumeration order;   *)
(* last is the latest call with what it returned, prev the call before it. *)

Key(op, arg) == [op |-> op, arg |-> arg]
Called(op, arg, ret) == [key |-> Key(op, arg), ret |-> ret]
NoCall == Called("none", "", [raised |-> None])

Init ==
  /\ installed = <<>>
  /\ prev = NoCall
  /\ last = NoCall

\* an installation (cli.py _cmd_install, through pipx) adds a pair to the
\* metadata; the calls recorded so far were made over other metadata
Install(p) ==
  /\ Len(installed) < MaxLen
  /\ installed' = Append(installed, p)
  /\ prev' = NoCall
  /\ last' = NoCall

CallLoadTools ==
  /\ last' = Called("load_tools", "", LoadTools)
  /\ prev' = last
  /\ UNCHANGED installed

CallResolveToolDistribution(tool_name) ==
  /\ last' = Called("resolve_tool_distribution", tool_name,
                    ResolveToolDistribution(tool_name))
  /\ prev' = last
  /\ UNCHANGED installed

CallLoadToolsWithVersions ==
  /\ last' = Called("load_tools_with_versions", "", LoadToolsWithVersions)
  /\ prev' = last
  /\ UNCHANGED installed

Next ==
  \/ \E p \in Catalogue : Install(p)
  \/ CallLoadTools
  \/ \E n \in AskedNames : CallResolveToolDistribution(n)
  \/ CallLoadToolsWithVersions

Spec == Init /\ [][Next]_vars

(* The resolver and the Tool constructor on their own, over every target *)

CallResolveTool(ep) ==
  /\ last' = Called("resolve_tool", ep, ResolveTool(ep))
  /\ UNCHANGED <<installed, prev>>

ConstructTool(name, description, run) ==
  /\ last' = Called("Tool", <<name, description, run>>, ToolNew(name, description, run))
  /\ UNCHANGED <<installed, prev>>

PluginNext ==
  \/ \E ep \in AllEntryPoints : CallResolveTool(ep)
  \/ \E n \in ToolNames, d \in Descriptions, r \in Runs : ConstructTool(n, d, r)

PluginSpec == Init /\ [][PluginNext]_vars

-----------------------------------------------------------------------------
(* Vocabulary of the properties *)

\* part in text, for a message kept as the sequence of its parts
Contains(msg, part) == \E i \in DOMAIN msg : msg[i] = part

RECURSIVE Ascending(_)
\* the members of a set of integers, smallest first
Ascending(S) ==
  IF S = {} THEN <<>>
  ELSE LET m == CHOOSE x \in S : \A y \in S : x <= y
       IN <<m>> \o Ascending(S \ {m})

Resolves(ep) == ResolveTool(ep).res.ok
ResolvedTool(ep) == ResolveTool(ep).res.value

\* the positions of eps whose entry point resolves to a tool named n
Claimants(eps, n) == {i \in DOMAIN eps : Resolves(eps[i]) /\ ResolvedTool(eps[i]).name = n}
First(S) == CHOOSE x \in S : \A y \in S : x <= y
ResolvedNames(eps) == {ResolvedTool(eps[i]).name : i \in {j \in DOMAIN eps : Resolves(eps[j])}}

IsDuplicateError(e, n) ==
  Contains(e.error, "Duplicate tool name") /\ e.error[Len(e.error)] = n
IsAnyDuplicateError(e) == Contains(e.error, "Duplicate tool name")

\* the error record a failed resolution of ep must leave
FailureRecord(ep) ==
  [name |-> ep.name, entry_point |-> StrEp(ep), error |-> ResolveTool(ep).res.exc.msg]

LastIs(op) == last.key.op = op

-----------------------------------------------------------------------------
(* Properties of load_tools *)

\* C1: of the candidates that resolve to tools of one name, load_tools keeps
\* the tool of the first in enumeration order under that name, and records
\* one "Duplicate tool name" error for each later one, in order, under the
\* later entry point's declared name.
C1_FirstRegisteredWins ==
  LastIs("load_tools") =>
    LET eps == SelectEntryPoints
        ret == last.ret
    IN \A n \in ResolvedNames(eps) :
         LET all == Claimants(eps, n)
             later == Ascending(all \ {First(all)})
             dups == SelectSeq(ret.errors, LAMBDA e : IsDuplicateError(e, n))
         IN /\ n \in DOMAIN ret.tools
            /\ ret.tools[n] = ResolvedTool(eps[First(all)])
            /\ Len(dups) = Len(later)
            /\ \A k \in DOMAIN later :
                 /\ dups[k].name = eps[later[k]].name
                 /\ dups[k].entry_point = StrEp(eps[later[k]])

\* two later candidates of one name, whose tools differ from the first's
C1_Witness ==
  /\ LastIs("load_tools")
  /\ \E n \in ResolvedNames(SelectEntryPoints) :
       LET all == Claimants(SelectEntryPoints, n)
       IN /\ Cardinality(all) >= 3
          /\ \E i \in all : ResolvedTool(SelectEntryPoints[i])
                              # ResolvedTool(SelectEntryPoints[First(all)])

\* C2: load_tools never raises: whatever the candidates do (load() raising,
\* a factory raising, a wrong shape, an invalid Tool built by a factory, a
\* duplicate name), no exception leaves the call, every candidate is tried,
\* and the call returns a mapping and a sequence of errors.
C2_LoadToolsNeverRaises ==
  LastIs("load_tools") =>
    /\ last.ret.raised = None
    /\ last.ret.loaded = [i \in 1..Len(SelectEntryPoints) |-> i]
    /\ Len(last.ret.errors) + Cardinality(DOMAIN last.ret.tools) = Len(SelectEntryPoints)

\* a call that met a failed resolution and a duplicate and still returned a tool
C2_Witness ==
  /\ LastIs("load_tools")
  /\ DOMAIN last.ret.tools # {}
  /\ \E i, j \in DOMAIN last.ret.errors :
       /\ IsAnyDuplicateError(last.ret.errors[i])
       /\ ~IsAnyDuplicateError(last.ret.errors[j])

\* C3: a candidate that fails resolution leaves the others alone: the
\* mapping is the one load_tools returns for the candidates without the
\* failing ones, and the errors that are not duplicate errors are, in
\* enumeration order, one record per failing candidate holding its declared
\* name, its string form and the raised message.
C3_FailuresAreIsolated ==
  LastIs("load_tools") =>
    LET eps == SelectEntryPoints
        failing == SelectSeq(eps, LAMBDA ep : ~Resolves(ep))
        sound == SelectSeq(eps, Resolves)
        failures == SelectSeq(last.ret.errors, LAMBDA e : ~IsAnyDuplicateError(e))
    IN /\ last.ret.tools = LoadToolsOf(sound).tools
       /\ failures = [k \in DOMAIN failing |-> FailureRecord(failing[k])]

\* a failing candidate enumerated before one that resolves
C3_Witness ==
  /\ LastIs("load_tools")
  /\ \E i, j \in DOMAIN SelectEntryPoints :
       /\ i < j
       /\ ~Resolves(SelectEntryPoints[i])
       /\ Resolves(SelectEntryPoints[j])
  /\ DOMAIN last.ret.tools # {}
  /\ last.ret.errors # <<>>

-----------------------------------------------------------------------------
(* Properties of _resolve_tool and of Tool *)

\* the arguments of a target's Tool(...) pass the constructor's checks
ValidArgs(t) == t.name # "" /\ t.description # "" /\ t.run.cls = "function"
BuiltTool(t) ==
  [cls |-> "Tool", name |-> t.name, description |-> t.description, run |-> t.run]

\* C4: resolve_tool returns the tool the entry point supplies: a loaded Tool
\* is returned as it is and nothing is invoked; a loaded factory that builds
\* a Tool is invoked once and its result returned.
C4_ResolveReturnsSuppliedTool ==
  LastIs("resolve_tool") =>
    LET t == last.key.arg.target
    IN /\ (t.kind = "tool" /\ ValidArgs(t)) =>
            (last.ret.res = Ok(BuiltTool(t)) /\ last.ret.calls = 0)
       /\ (t.kind = "factory" /\ ValidArgs(t)) =>
            (last.ret.res = Ok(BuiltTool(t)) /\ last.ret.calls = 1)

\* a factory was resolved to the tool it builds
C4_Witness ==
  /\ LastIs("resolve_tool")
  /\ last.key.arg.target.kind = "factory"
  /\ last.ret.res.ok
  /\ last.ret.calls = 1

\* C5: when the loaded value is neither a Tool nor callable, and when it is
\* a callable that returns something else than a Tool, resolve_tool raises a
\* TypeError whose message holds the entry point's declared name; and what
\* resolve_tool returns is a Tool, whatever was loaded.
C5_ShapeFailureNamesEntryPoint ==
  LastIs("resolve_tool") =>
    LET ep == last.key.arg
        res == last.ret.res
    IN /\ ep.target.kind \in {"object", "factory_nontool"} =>
            /\ ~res.ok
            /\ res.exc.type = "TypeError"
            /\ Contains(res.exc.msg, ep.name)
            /\ Contains(res.exc.msg, "' must resolve to a Tool or a callable returning Tool")
       /\ res.ok => res.value.cls = "Tool"

\* a callable that returned a non-Tool was refused
C5_Witness ==
  /\ LastIs("resolve_tool")
  /\ last.key.arg.target.kind = "factory_nontool"
  /\ ~last.ret.res.ok
  /\ last.ret.calls = 1

\* C9: Tool(...) checks the name, then the description, then run, and the
\* first check that fails raises its own error: ValueError for an empty name,
\* ValueError with another message for an empty description, TypeError for a
\* run that is not callable; so a Tool that exists, built directly or handed
\* out by resolve_tool, has a name, a description and a callable run.
C9_ToolIsValidated ==
  /\ Cardinality({Raise("ValueError", NameError), Raise("ValueError", DescriptionError),
                  Raise("TypeError", RunError)}) = 3
  /\ LastIs("Tool") =>
       LET name == last.key.arg[1]
           description == last.key.arg[2]
           run == last.key.arg[3]
       IN /\ name = "" => last.ret = Raise("ValueError", NameError)
          /\ (name # "" /\ description = "") =>
               last.ret = Raise("ValueError", DescriptionError)
          /\ (name # "" /\ description # "" /\ run.cls # "function") =>
               last.ret = Raise("TypeError", RunError)
          /\ last.ret.ok =>
               last.ret.value = [cls |-> "Tool", name |-> name,
                                 description |-> description, run |-> run]
  /\ (LastIs("Tool") /\ last.ret.ok) => ValidArgs(last.ret.value)
  /\ (LastIs("resolve_tool") /\ last.ret.res.ok) => ValidArgs(last.ret.res.value)

\* a construction with a name and a description was refused for its run
C9_Witness ==
  /\ LastIs("Tool")
  /\ last.key.arg[1] # ""
  /\ last.key.arg[2] # ""
  /\ ~last.ret.ok
  /\ last.ret.exc.type = "TypeError"

-----------------------------------------------------------------------------
(* Properties of resolve_tool_distribution *)

PairResolves(p) == Resolves(p.ep)
PairFails(p) == ~Resolves(p.ep)
Matches(p, n) == Resolves(p.ep) /\ ResolvedTool(p.ep).name = n
\* the package name of the distribution can be read without an exception
NameReadable(d) == TruthyOpt(d.name) \/ d.metadata.readable
\* the name attribute, or when it is falsy the "Name" key of the metadata
PackageName(d) ==
  IF TruthyOpt(d.name) THEN d.name
  ELSE IF "Name" \in DOMAIN d.metadata.fields THEN Some(d.metadata.fields["Name"])
  ELSE None
IsMetadataError(e) == e.error = <<"metadata unreadable">>
MetadataFailureRecord(ep) ==
  [name |-> ep.name, entry_point |-> StrEp(ep), error |-> <<"metadata unreadable">>]
UpTo(k) == [i \in 1..k |-> i]

\* C6 as claimed: the call returns at the first pair whose entry point
\* resolves to a tool named tool_name, with that distribution's package name,
\* having loaded no later entry point and holding exactly the failures of
\* the pairs before it.
C6_ReturnsAtFirstMatch ==
  LastIs("resolve_tool_distribution") =>
    LET pairs == IterEntryPointsWithDist
        m == {i \in DOMAIN pairs : Matches(pairs[i], last.key.arg)}
    IN m # {} =>
         LET f == First(m)
             failing == SelectSeq(SubSeq(pairs, 1, f - 1), PairFails)
         IN /\ last.ret.returned
            /\ last.ret.name = PackageName(pairs[f].dist)
            /\ last.ret.loaded = UpTo(f)
            /\ last.ret.errors = [k \in DOMAIN failing |-> FailureRecord(failing[k].ep)]

\* C6: the call returns at the first pair whose entry point resolves to a
\* tool named tool_name and whose distribution's package name can be read
\* (a truthy name attribute, or a readable metadata mapping): it returns
\* that package name, no later entry point is loaded, and the errors are, in
\* order, those of the pairs before it: one per failed resolution, and one
\* per matching pair whose name is falsy and whose metadata cannot be read,
\* which is recorded and skipped like a failed resolution.
C6_ReturnsAtFirstReadableMatch ==
  LastIs("resolve_tool_distribution") =>
    LET pairs == IterEntryPointsWithDist
        n == last.key.arg
        m == {i \in DOMAIN pairs : Matches(pairs[i], n) /\ NameReadable(pairs[i].dist)}
    IN m # {} =>
         LET f == First(m)
             skipped == SelectSeq(SubSeq(pairs, 1, f - 1),
                                  LAMBDA p : PairFails(p) \/ Matches(p, n))
         IN /\ last.ret.returned
            /\ last.ret.name = PackageName(pairs[f].dist)
            /\ last.ret.loaded = UpTo(f)
            /\ last.ret.errors =
                 [k \in DOMAIN skipped |->
                    IF PairFails(skipped[k]) THEN FailureRecord(skipped[k].ep)
                    ELSE MetadataFailureRecord(skipped[k].ep)]

\* the call returned at a match after a failure, leaving a later pair unloaded
C6_Witness ==
  /\ LastIs("resolve_tool_distribution")
  /\ last.ret.returned
  /\ last.ret.errors # <<>>
  /\ Len(last.ret.loaded) < Len(IterEntryPointsWithDist)

\* C7: a failed resolution never ends the scan: the call does not raise, it
\* returns the name it returns for the pairs without the failing ones, each
\* failing pair it went through left exactly one error, in order, and when
\* no pair resolves to tool_name it went through all pairs and returns None
\* with one error per failing pair.
C7_FailuresDoNotAbortScan ==
  LastIs("resolve_tool_distribution") =>
    LET pairs == IterEntryPointsWithDist
        n == last.key.arg
        ret == last.ret
        gone == SelectSeq(SubSeq(pairs, 1, Len(ret.loaded)), PairFails)
        failing == SelectSeq(pairs, PairFails)
        failures == SelectSeq(ret.errors, LAMBDA e : ~IsMetadataError(e))
    IN /\ ret.raised = None
       /\ ret.name = ResolveToolDistributionOf(SelectSeq(pairs, PairResolves), n).name
       /\ failures = [k \in DOMAIN gone |-> FailureRecord(gone[k].ep)]
       /\ (\A i \in DOMAIN pairs : ~Matches(pairs[i], n)) =>
            /\ ~ret.returned
            /\ ret.name = None
            /\ ret.loaded = UpTo(Len(pairs))
            /\ ret.errors = [k \in DOMAIN failing |-> FailureRecord(failing[k].ep)]

\* a matching pair was found after a pair that failed
C7_Witness ==
  /\ LastIs("resolve_tool_distribution")
  /\ last.ret.returned
  /\ last.ret.name # None
  /\ \E i \in DOMAIN last.ret.loaded : PairFails(IterEntryPointsWithDist[i])

-----------------------------------------------------------------------------
(* Properties of load_tools_with_versions *)

ExpectedVersion(d) ==
  IF d.version # None THEN d.version[1]
  ELSE IF d.metadata.readable /\ "Version" \in DOMAIN d.metadata.fields
    THEN d.metadata.fields["Version"]
  ELSE ""

\* C8: load_tools_with_versions returns the tools and the errors of
\* load_tools over the same entry points (first registered wins, failures
\* and duplicates recorded, nothing raised), each tool with the version of
\* the distribution it came from: the version attribute when not None, else
\* the "Version" key of the metadata, else the empty string.
C8_VersionsFollowDistribution ==
  LastIs("load_tools_with_versions") =>
    LET pairs == IterEntryPointsWithDist
        eps == SelectEntryPoints
        flat == LoadToolsOf(eps)
        ret == last.ret
    IN /\ ret.raised = None
       /\ DOMAIN ret.tools = DOMAIN flat.tools
       /\ ret.errors = flat.errors
       /\ \A n \in DOMAIN ret.tools :
            /\ ret.tools[n].tool = flat.tools[n]
            /\ ret.tools[n].version = ExpectedVersion(pairs[First(Claimants(eps, n))].dist)

\* a tool got its version from the metadata and another from the attribute
C8_Witness ==
  /\ LastIs("load_tools_with_versions")
  /\ \E n, k \in DOMAIN last.ret.tools :
       /\ last.ret.tools[n].version = "9.9.9"
       /\ last.ret.tools[k].version = "1.2.3"
  /\ last.ret.errors # <<>>

-----------------------------------------------------------------------------
(* Properties of the calls taken together *)

-----------------------------------------------------------------------------
(* Properties of the package name extraction *)

\* the pair at which a call of resolve_tool_distribution returned
ReturnedAt == IterEntryPointsWithDist[Len(last.ret.loaded)]

\* C17: when resolve_tool_distribution returns at a pair, the name it
\* returns is the name attribute of that pair's distribution if that is
\* truthy, and only otherwise the "Name" key of its metadata (None when the
\* key is missing); and no call raises to its caller: a matching pair whose
\* name is falsy and whose metadata cannot be read leaves one error in the
\* returned tuple instead.
C17_NamePrefersAttribute ==
  LastIs("resolve_tool_distribution") =>
    /\ last.ret.raised = None
    /\ last.ret.returned =>
         LET d == ReturnedAt.dist
         IN /\ Matches(ReturnedAt, last.key.arg)
            /\ TruthyOpt(d.name) => last.ret.name = d.name
            /\ ~TruthyOpt(d.name) =>
                 /\ d.metadata.readable
                 /\ last.ret.name =
                      IF "Name" \in DOMAIN d.metadata.fields
                      THEN Some(d.metadata.fields["Name"]) ELSE None
    /\ \A i \in DOMAIN last.ret.loaded :
         LET p == IterEntryPointsWithDist[i]
         IN (Matches(p, last.key.arg) /\ ~NameReadable(p.dist)) =>
              \E k \in DOMAIN last.ret.errors :
                last.ret.errors[k] = MetadataFailureRecord(p.ep)

\* a call skipped a matching pair whose metadata cannot be read, recorded
\* the failure, and returned the "Name" key of a later distribution without
\* a name attribute
C17_Witness ==
  /\ LastIs("resolve_tool_distribution")
  /\ last.ret.returned
  /\ ReturnedAt.dist.name = None
  /\ last.ret.name = Some("pkg-two")
  /\ \E k \in DOMAIN last.ret.errors : IsMetadataError(last.ret.errors[k])

-----------------------------------------------------------------------------
(* Properties of the not-found result *)

\* the positions of the pairs that resolve to a tool named n
MatchesOf(n) ==
  {i \in DOMAIN IterEntryPointsWithDist : Matches(IterEntryPointsWithDist[i], n)}
\* those among them whose distribution's package name can be read
ReadableMatchesOf(n) ==
  {i \in MatchesOf(n) : NameReadable(IterEntryPointsWithDist[i].dist)}

\* C18 as claimed: the returned package name is None exactly when no pair of
\* the scan resolves to a tool named tool_name.
C18_NoneOnlyWithoutMatch ==
  LastIs("resolve_tool_distribution") =>
    (last.ret.name = None <=> MatchesOf(last.key.arg) = {})

\* C18: the returned package name is None exactly when no pair resolves to a
\* tool named tool_name with a package name that can be read, or the first
\* such pair's distribution has neither a truthy name attribute nor a "Name"
\* key in its metadata; in particular it is None when nothing matches, and
\* it is not None when the first match carries a name.
C18_NoneWithoutNamedMatch ==
  LastIs("resolve_tool_distribution") =>
    LET m == ReadableMatchesOf(last.key.arg)
        nameless == \/ m = {}
                    \/ LET d == IterEntryPointsWithDist[First(m)].dist
                       IN /\ ~TruthyOpt(d.name)
                          /\ "Name" \notin DOMAIN d.metadata.fields
    IN /\ last.ret.name = None <=> nameless
       /\ MatchesOf(last.key.arg) = {} => last.ret.name = None

\* a call found a match and still returned None: the matching distribution
\* has no name to give
C18_Witness ==
  /\ LastIs("resolve_tool_distribution")
  /\ MatchesOf(last.key.arg) # {}
  /\ last.ret.name = None
  /\ Len(last.ret.loaded) > 1

-----------------------------------------------------------------------------
(* load_tools against resolve_tool_distribution. Both enumerations are     *)
(* read from the same installed metadata, so they present the same entry   *)
(* points in the same order.                                               *)

\* a call of load_tools followed by a call of resolve_tool_distribution for
\* a name of the mapping the first one returned
AskedForLoadedName ==
  /\ prev.key.op = "load_tools"
  /\ LastIs("resolve_tool_distribution")
  /\ last.key.arg \in DOMAIN prev.ret.tools

\* the position of the entry point whose tool load_tools retained for n:
\* the first one that resolves to the tool the mapping holds
RetainedAt(n) ==
  First({i \in DOMAIN IterEntryPointsWithDist :
           /\ Resolves(IterEntryPointsWithDist[i].ep)
           /\ ResolvedTool(IterEntryPointsWithDist[i].ep) = prev.ret.tools[n]})

\* C19 as claimed: for every name n of the mapping of load_tools,
\* resolve_tool_distribution(n) returns the package name of the distribution
\* that declares the entry point whose tool load_tools retained for n.
C19_SameOwner ==
  AskedForLoadedName =>
    last.ret.name = PackageName(IterEntryPointsWithDist[RetainedAt(last.key.arg)].dist)

\* C19: for every name n of the mapping of load_tools, the entry point
\* retained for n is the first one that resolves to a tool named n, and
\* resolve_tool_distribution(n) returns the package name of the distribution
\* declaring it (None when that distribution has no name) provided that name
\* can be read without an exception; when it cannot,
\* resolve_tool_distribution(n) returns the name of the next distribution,
\* in enumeration order, that registers a tool named n and whose name can be
\* read, or None when there is none.
C19_SameOwnerWhenReadable ==
  AskedForLoadedName =>
    LET n == last.key.arg
        pairs == IterEntryPointsWithDist
        owner == pairs[RetainedAt(n)].dist
        later == {i \in ReadableMatchesOf(n) : i > RetainedAt(n)}
    IN /\ RetainedAt(n) = First(MatchesOf(n))
       /\ NameReadable(owner) => last.ret.name = PackageName(owner)
       /\ ~NameReadable(owner) =>
            last.ret.name = IF later = {} THEN None
                            ELSE PackageName(pairs[First(later)].dist)

\* two distributions register the asked name, load_tools kept the first
\* one's tool and resolve_tool_distribution returned the first one's name
C19_Witness ==
  /\ AskedForLoadedName
  /\ Cardinality(MatchesOf(last.key.arg)) > 1
  /\ NameReadable(IterEntryPointsWithDist[RetainedAt(last.key.arg)].dist)
  /\ last.ret.name # None
  /\ \E i \in MatchesOf(last.key.arg) :
       PackageName(IterEntryPointsWithDist[i].dist) \notin {None, last.ret.name}

-----------------------------------------------------------------------------
(* cli.py: strings. A Python str is written as a TLA+ string; where the    *)
(* code looks inside one (replace, lower, startswith, sorted) it is taken  *)
(* as the sequence of its characters.                                      *)

\* the characters of the strings the commands meet
Chars(s) ==
  CASE s = "" -> <<>>
    [] s = "a" -> <<"a">>
    [] s = "b" -> <<"b">>
    [] s = "zz" -> <<"z", "z">>
    [] s = "pkg-one" -> <<"p", "k", "g", "-", "o", "n", "e">>
    [] s = "pkg-two" -> <<"p", "k", "g", "-", "t", "w", "o">>
    [] s = "firm-ai" -> <<"f", "i", "r", "m", "-", "a", "i">>
    [] s = "Firm_AI" -> <<"F", "i", "r", "m", "_", "A", "I">>
    [] s = "firm_ai" -> <<"f", "i", "r", "m", "_", "a", "i">>
    [] s = "git+" -> <<"g", "i", "t", "+">>
    [] s = "http://" -> <<"h", "t", "t", "p", ":", "/", "/">>
    [] s = "https://" -> <<"h", "t", "t", "p", "s", ":", "/", "/">>
    [] s = "git+u" -> <<"g", "i", "t", "+", "u">>
    [] s = "http://u" -> <<"h", "t", "t", "p", ":", "/", "/", "u">>
    [] s = "https://u" -> <<"h", "t", "t", "p", "s", ":", "/", "/", "u">>
    [] s = "gitu" -> <<"g", "i", "t", "u">>

UpperCase ==
  <<"A", "B", "C", "D", "E", "F", "G", "H", "I", "J", "K", "L", "M",
    "N", "O", "P", "Q", "R", "S", "T", "U", "V", "W", "X", "Y", "Z">>
LowerCase ==
  <<"a", "b", "c", "d", "e", "f", "g", "h", "i", "j", "k", "l", "m",
    "n", "o", "p", "q", "r", "s", "t", "u", "v", "w", "x", "y", "z">>
\* the characters in code point order, for the comparison of strings
CodePoints ==
  <<"+", "-", "/", ":", "A", "B", "C", "D", "E", "F", "G", "H", "I",
    "J", "K", "L", "M", "N", "O", "P", "Q", "R", "S", "T", "U", "V",
    "W", "X", "Y", "Z", "_", "a", "b", "c", "d", "e", "f", "g", "h",
    "i", "j", "k", "l", "m", "n", "o", "p", "q", "r", "s", "t", "u",
    "v", "w", "x", "y", "z">>

Ord(c) == CHOOSE i \in DOMAIN CodePoints : CodePoints[i] = c

\* str.lower() on one character
Lower(c) ==
  IF \E i \in DOMAIN UpperCase : UpperCase[i] = c
  THEN LowerCase[CHOOSE i \in DOMAIN UpperCase : UpperCase[i] = c]
  ELSE c

\* str.replace(old, new) for one-character old and new
Replace(cs, old, new) == [i \in DOMAIN cs |-> IF cs[i] = old THEN new ELSE cs[i]]

StrLower(cs) == [i \in DOMAIN cs |-> Lower(cs[i])]

WRAPPER_PACKAGE == "firm-ai"

\* a variant of NormalizeName that keeps the case
NormalizeNameKeepsCase(name) == Replace(Chars(name), "_", "-")

\* _normalize_name(name): name.replace("_", "-").lower()
NormalizeName(name) == StrLower(Replace(Chars(name), "_", "-"))

\* str.startswith(prefix)
StartsWith(s, prefix) ==
  /\ Len(Chars(prefix)) <= Len(Chars(s))
  /\ SubSeq(Chars(s), 1, Len(Chars(prefix))) = Chars(prefix)

VcsPrefixes == {"git+", "http://", "https://"}

\* a variant of IsVcsOrUrl that knows the git+ prefix only
IsVcsOnly(spec) == StartsWith(spec, "git+")

\* _is_vcs_or_url(spec)
IsVcsOrUrl(spec) == \E p \in VcsPrefixes : StartsWith(spec, p)

RECURSIVE CharsLess(_, _)
\* a < b for two Python strings, given by their characters
CharsLess(a, b) ==
  IF a = <<>> THEN b # <<>>
  ELSE IF b = <<>> THEN FALSE
  ELSE IF Head(a) = Head(b) THEN CharsLess(Tail(a), Tail(b))
  ELSE Ord(Head(a)) < Ord(Head(b))

\* a < b for two Python strings
StrLess(a, b) == CharsLess(Chars(a), Chars(b))

\* sorted(S) for a collection S of strings: the i-th is the one with i - 1
\* smaller ones
Sorted(S) ==
  [i \in 1..Cardinality(S) |->
     CHOOSE x \in S : Cardinality({y \in S : StrLess(y, x)}) = i - 1]

\* sep.join(names), as the parts of the text
Join(sep, names) ==
  [i \in 1..(IF names = <<>> THEN 0 ELSE 2 * Len(names) - 1) |->
     IF i % 2 = 1 THEN names[(i + 1) \div 2] ELSE sep]

-----------------------------------------------------------------------------
(* cli.py: a command is kept as its exit code and the sequence of its      *)
(* effects, in the order the code performs them: the calls of discovery,   *)
(* the lines written to stderr and to stdout, the subprocesses, the calls  *)
(* of a tool's run and of the metadata cleanup.                            *)

Event(ev, what, data) == [ev |-> ev, what |-> what, data |-> data]
Stderr(text) == Event("stderr", "", text)
Stdout(text) == Event("stdout", "", text)
Subprocess(cmd) == Event("subprocess", "", cmd)
Discovery(fn, arg) == Event("discovery", fn, <<arg>>)
RunTool(name, args) == Event("run", name, args)
Cleanup(package_name) == Event("cleanup", package_name, <<>>)

Exit(code, effects) == [code |-> code, effects |-> effects]

\* the member of a singleton set: a call whose result a handler keeps in a
\* local is bound in such a set, and so made once
Once(S) == CHOOSE x \in S : TRUE

\* ToolLoadError.__str__
StrToolLoadError(e) == <<e.name, " (">> \o e.entry_point \o <<"): ">> \o e.error

\* a variant of PrintErrors that reports the first error only
PrintErrorsFirstOnly(errors) ==
  IF errors = <<>> THEN <<>>
  ELSE <<Stderr(<<"[firm-ai] tool load error: ">> \o StrToolLoadError(errors[1])
                \o <<"\n">>)>>

\* _print_errors(errors): the lines it writes
PrintErrors(errors) ==
  [i \in DOMAIN errors |->
     Stderr(<<"[firm-ai] tool load error: ">> \o StrToolLoadError(errors[i]) \o <<"\n">>)]

\* _cmd_list() after line 69, r being what load_tools() returned
ListWith(r) ==
  LET names == Sorted(DOMAIN r.tools)
      before == <<Discovery("load_tools", "")>> \o PrintErrors(r.errors)
  IN IF DOMAIN r.tools = {}
       THEN Exit(0, before \o <<Stdout(<<"No tools installed.", "\n">>)>>)
     ELSE Exit(0, before \o
                  [i \in DOMAIN names |->
                     Stdout(<<r.tools[names[i]].name, "\t",
                              r.tools[names[i]].description, "\n">>)])

\* _cmd_list()
CmdList == Once({ListWith(r) : r \in {LoadTools}})

PyInt(n) == [cls |-> "int", n |-> n]

\* tool.run(args) for the run functions of the installed tools
RunOf(fn, args) ==
  CASE fn.id = "f" -> Ok(PyInt(0))
    [] fn.id = "five" -> Ok(PyInt(5))
    [] fn.id = "none" -> Ok(NoneValue)
    [] fn.id = "boom" -> Raise("RuntimeError", <<"tool boom">>)

\* int(v)
IntOf(v) ==
  IF v.cls = "int" THEN Ok(v.n)
  ELSE Raise("TypeError", <<"int() argument must be a string or a real number">>)

\* a variant of StripSeparator that drops every leading "--"
RECURSIVE StripSeparators(_)
StripSeparators(tool_args) ==
  IF tool_args # <<>> /\ tool_args[1] = "--" THEN StripSeparators(Tail(tool_args))
  ELSE tool_args

\* lines 87-88 of _cmd_run
StripSeparator(tool_args) ==
  IF tool_args # <<>> /\ tool_args[1] = "--" THEN Tail(tool_args) ELSE tool_args

\* _cmd_run(tool_name, tool_args) after line 84, r being what load_tools()
\* returned
RunWith(r, tool_name, tool_args) ==
  LET args == StripSeparator(tool_args)
      before == <<Discovery("load_tools", "")>> \o PrintErrors(r.errors)
      available == IF DOMAIN r.tools = {} THEN <<"<none>">>
                   ELSE Join(", ", Sorted(DOMAIN r.tools))
  IN IF tool_name \notin DOMAIN r.tools
       THEN Exit(2, before \o
                    <<Stderr(<<"[firm-ai] unknown tool '", tool_name, "'. Available: ">>
                             \o available \o <<"\n">>)>>)
     ELSE LET tool == r.tools[tool_name]
              out == RunOf(tool.run, args)
              conv == IF out.ok THEN IntOf(out.value) ELSE out
          IN IF conv.ok THEN Exit(conv.value, before \o <<RunTool(tool.name, args)>>)
             ELSE Exit(1, before \o
                          <<RunTool(tool.name, args),
                            Stderr(<<"[firm-ai] tool '", tool_name, "' failed: ">>
                                   \o StrExc(conv.exc) \o <<"\n">>)>>)

\* _cmd_run(tool_name, tool_args)
CmdRun(tool_name, tool_args) ==
  Once({RunWith(r, tool_name, tool_args) : r \in {LoadTools}})

\* _pipx_cmd(): which is shutil.which("pipx")
PipxCmd(which) ==
  IF TruthyOpt(which) THEN <<which[1]>> ELSE <<"python", "-m", "pipx">>

\* _run_pipx(cmd, action=action): outcome is what subprocess.run does
RunPipx(cmd, action, outcome) ==
  CASE outcome.kind = "ok" -> Exit(0, <<Subprocess(cmd)>>)
    [] outcome.kind = "missing" ->
         Exit(1, <<Subprocess(cmd),
                   Stderr(<<"[firm-ai] pipx is not available. ",
                            "Install pipx or use a venv and pip.", "\n">>)>>)
    [] outcome.kind = "failed" ->
         Exit(outcome.returncode,
              <<Subprocess(cmd),
                Stderr(<<"[firm-ai] pipx ", action, " failed: ",
                         "CalledProcessError", "\n">>)>>)

\* _cmd_install(repo)
CmdInstall(repo, which, outcome) ==
  RunPipx(PipxCmd(which) \o <<"inject", "firm-ai", repo>>, "inject", outcome)

\* pipx_metadata.json of the wrapper's venv: found says that the venv
\* directory is found and the file can be read, writable that it can be
\* written; injected and main are the keys of "injected_packages" and of
\* "main_package"."injected_packages"
PipxFile(found, writable, injected, main) ==
  [found |-> found, writable |-> writable, injected |-> injected, main |-> main]

\* _remove_injected_package(data, package_name): the data it leaves
RemoveInjectedPackage(data, package_name) ==
  [data EXCEPT
     !.injected = {k \in @ : NormalizeName(k) # NormalizeName(package_name)},
     !.main = {k \in @ : NormalizeName(k) # NormalizeName(package_name)}]

\* _cleanup_pipx_metadata(package_name): its effects, _pipx_list_json
\* included, and the file it leaves
CleanupPipxMetadata(file, package_name, which) ==
  LET left == RemoveInjectedPackage(file, package_name)
  IN [effects |-> <<Cleanup(package_name),
                    Subprocess(PipxCmd(which) \o <<"list", "--json">>)>>,
      file |-> IF file.found /\ left # file /\ file.writable THEN left ELSE file]

ExitWith(code, effects, file) == [code |-> code, effects |-> effects, file |-> file]

\* a variant of UninstallWith that cleans up whatever the uninstall returned
UninstallAlwaysCleans(rr, name, which, outcome, file) ==
  LET before == <<Discovery("resolve_tool_distribution", name)>> \o PrintErrors(rr.errors)
      package_name == IF TruthyOpt(rr.name) THEN rr.name[1] ELSE name
      run == RunPipx(PipxCmd(which) \o
                       <<"runpip", "firm-ai", "uninstall", "-y", package_name>>,
                     "runpip uninstall", outcome)
      clean == CleanupPipxMetadata(file, package_name, which)
  IN IF NormalizeName(package_name) = NormalizeName(WRAPPER_PACKAGE)
       THEN ExitWith(2, before, file)
     ELSE ExitWith(run.code, before \o run.effects \o clean.effects, clean.file)

\* _cmd_uninstall(name) after line 109, rr being what
\* resolve_tool_distribution(name) returned and file the metadata file
UninstallWith(rr, name, which, outcome, file) ==
  LET before == <<Discovery("resolve_tool_distribution", name)>> \o PrintErrors(rr.errors)
      package_name == IF TruthyOpt(rr.name) THEN rr.name[1] ELSE name
      warning == IF rr.name = None
                 THEN <<Stderr(<<"[firm-ai] could not resolve tool '", name,
                                 "' to a package name. ", "Trying the provided name.",
                                 "\n">>)>>
                 ELSE <<>>
      run == RunPipx(PipxCmd(which) \o
                       <<"runpip", "firm-ai", "uninstall", "-y", package_name>>,
                     "runpip uninstall", outcome)
      clean == CleanupPipxMetadata(file, package_name, which)
  IN IF NormalizeName(package_name) = NormalizeName(WRAPPER_PACKAGE)
       THEN ExitWith(2, before \o
                        <<Stderr(<<"[firm-ai] refusing to uninstall the wrapper package. ",
                                   "Provide a tool package name (e.g. firm-ai-hello).",
                                   "\n">>)>>,
                     file)
     ELSE IF run.code # 0
       THEN ExitWith(run.code, before \o warning \o run.effects, file)
     ELSE ExitWith(0, before \o warning \o run.effects \o clean.effects, clean.file)

\* _cmd_uninstall(name)
CmdUninstall(name, which, outcome, file) ==
  Once({UninstallWith(rr, name, which, outcome, file) :
          rr \in {ResolveToolDistribution(name)}})

\* _cmd_upgrade(spec) with rr what resolve_tool_distribution(spec) returns
\* when line 134 calls it
UpgradeWith(rr, spec, which, outcome) ==
  LET resolve == ~IsVcsOrUrl(spec)
      before == IF resolve
                THEN <<Discovery("resolve_tool_distribution", spec)>>
                     \o PrintErrors(rr.errors)
                ELSE <<>>
      target == IF resolve /\ TruthyOpt(rr.name) THEN rr.name[1] ELSE spec
  IN IF NormalizeName(target) = NormalizeName(WRAPPER_PACKAGE)
       THEN Exit(2, before \o
                    <<Stderr(<<"[firm-ai] refusing to upgrade the wrapper via tool upgrade. ",
                               "Use 'firm-ai upgrade-self'.", "\n">>)>>)
     ELSE LET run == RunPipx(PipxCmd(which) \o
                               <<"runpip", "firm-ai", "install", "--upgrade", target>>,
                             "runpip install --upgrade", outcome)
          IN Exit(run.code, before \o run.effects)

\* _cmd_upgrade(spec)
CmdUpgrade(spec, which, outcome) ==
  Once({UpgradeWith(rr, spec, which, outcome) : rr \in {ResolveToolDistribution(spec)}})

\* _cmd_upgrade_self()
CmdUpgradeSelf(which, outcome) ==
  RunPipx(PipxCmd(which) \o <<"upgrade", WRAPPER_PACKAGE>>, "upgrade", outcome)

-----------------------------------------------------------------------------
(* The inputs of the commands *)

\* the wrapper's own distribution, which can register tools as well
DistWrapper == Distribution(Some("Firm_AI"), Some("0.1.0"), TRUE,
                            [k \in {"Name", "Version"} |->
                               IF k = "Name" THEN "Firm_AI" ELSE "0.1.0"])

EpFive == EntryPoint("five", "pkg_two.tools:FIVE", ENTRYPOINT_GROUP,
                     ToolTarget("tool", "b", "d2", Function("five")))
EpRunBoom == EntryPoint("rb", "pkg_one.tools:RB", ENTRYPOINT_GROUP,
                        ToolTarget("tool", "b", "d1", Function("boom")))
EpRunNone == EntryPoint("rn", "pkg_two.tools:RN", ENTRYPOINT_GROUP,
                        ToolTarget("factory", "b", "d1", Function("none")))
EpBuiltin == EntryPoint("builtin", "firm_ai.tools:make", ENTRYPOINT_GROUP,
                        ToolTarget("factory", "a", "d2", F))

\* the pairs an installation can add, for the commands
CliCatalogue ==
  {Pair(EpA, DistOne), Pair(EpFive, DistTwo), Pair(EpRunBoom, DistOne),
   Pair(EpRunNone, DistTwo), Pair(EpBoom, DistOne), Pair(EpBuiltin, DistWrapper)}

RunNames == {"a", "b", "zz"}
ArgLists == {<<>>, <<"--", "x">>, <<"--", "--", "x">>, <<"x", "--">>}
Repos == {"git+u", "pkg-one"}
UninstallNames == {"a", "b", "zz", "pkg-one", "firm_ai"}
UpgradeSpecs == {"a", "b", "firm-ai", "Firm_AI", "gitu", "git+u", "http://u", "https://u"}
Whichs == {None, Some("/usr/bin/pipx")}
PipxOutcomes ==
  {[kind |-> "ok", returncode |-> 0], [kind |-> "missing", returncode |-> 0],
   [kind |-> "failed", returncode |-> 4]}
PipxFiles ==
  {PipxFile(FALSE, FALSE, {}, {}),
   PipxFile(TRUE, TRUE, {"pkg-one", "Firm_AI"}, {"pkg-two", "pkg-one"}),
   PipxFile(TRUE, FALSE, {"pkg-two"}, {})}

-----------------------------------------------------------------------------
(* cli.py: main dispatches one command per process: last = NoCall is a    *)
(* process that has not run its command yet. A command reads the installed *)
(* metadata; what its subprocess does to the metadata is the step Install. *)

\* main(argv) reaches the command op and returns what it returns
RunCommand(op, arg, ret) ==
  /\ last = NoCall
  /\ last' = Called(op, arg, ret)
  /\ prev' = NoCall
  /\ UNCHANGED installed

\* the process has exited; the next command runs in a new one
NewProcess ==
  /\ last # NoCall
  /\ last' = NoCall
  /\ prev' = NoCall
  /\ UNCHANGED installed

MainList == RunCommand("list", "", CmdList)

MainRun(tool_name, tool_args) ==
  RunCommand("run", [tool |-> tool_name, tool_args |-> tool_args],
             CmdRun(tool_name, tool_args))

MainInstall(repo, which, outcome) ==
  RunCommand("install", repo, CmdInstall(repo, which, outcome))

MainUninstall(name, which, outcome, file) ==
  RunCommand("uninstall",
             [name |-> name, which |-> which, outcome |-> outcome, file |-> file],
             CmdUninstall(name, which, outcome, file))

MainUpgrade(spec, which, outcome) ==
  RunCommand("upgrade", [spec |-> spec, which |-> which, outcome |-> outcome],
             CmdUpgrade(spec, which, outcome))

MainUpgradeSelf(which, outcome) ==
  RunCommand("upgrade-self", "", CmdUpgradeSelf(which, outcome))

CliNext ==
  \/ \E p \in CliCatalogue : Install(p)
  \/ MainList
  \/ \E n \in RunNames, a \in ArgLists : MainRun(n, a)
  \/ \E r \in Repos, w \in Whichs, o \in PipxOutcomes : MainInstall(r, w, o)
  \/ \E n \in UninstallNames, w \in Whichs, o \in PipxOutcomes, f \in PipxFiles :
       MainUninstall(n, w, o, f)
  \/ \E s \in UpgradeSpecs, w \in Whichs, o \in PipxOutcomes : MainUpgrade(s, w, o)
  \/ \E w \in Whichs, o \in PipxOutcomes : MainUpgradeSelf(w, o)
  \/ NewProcess

CliSpec == Init /\ [][CliNext]_vars

-----------------------------------------------------------------------------
(* Properties of the commands *)

Effects == last.ret.effects
\* the lines the command wrote, to either stream, in order
Output == SelectSeq(Effects, LAMBDA e : e.ev \in {"stderr", "stdout"})
\* the subprocesses the command started, in order
Subprocesses == SelectSeq(Effects, LAMBDA e : e.ev = "subprocess")
Happened(ev) == \E i \in DOMAIN Effects : Effects[i].ev = ev

DiscoveryCommands == {"list", "run", "uninstall", "upgrade"}

\* the ToolLoadErrors discovery returned to the command: those of load_tools
\* for list and run, those of resolve_tool_distribution for uninstall and
\* for upgrade, which makes no discovery call for a VCS or URL spec
DiscoveryErrors ==
  CASE last.key.op \in {"list", "run"} -> LoadTools.errors
    [] last.key.op = "uninstall" -> ResolveToolDistribution(last.key.arg.name).errors
    [] last.key.op = "upgrade" ->
         IF \E p \in {"git+", "http://", "https://"} : StartsWith(last.key.arg.spec, p)
         THEN <<>> ELSE ResolveToolDistribution(last.key.arg.spec).errors

\* <name> (<entry_point>): <error>
ErrorForm(e) == <<e.name, " (">> \o e.entry_point \o <<"): ">> \o e.error

IsLoadErrorLine(e) ==
  /\ e.ev = "stderr"
  /\ \E k \in DOMAIN e.data : e.data[k] = " ("
  /\ \E k \in DOMAIN e.data : e.data[k] = "): "

\* C11 as claimed: the first lines a list, run, uninstall or upgrade command
\* writes are one line `<name> (<entry_point>): <error>` per ToolLoadError
\* that discovery returned, in the order of accumulation, before anything
\* else the command does or writes.
C11_OneLinePerErrorBareForm ==
  last.key.op \in DiscoveryCommands =>
    LET errs == DiscoveryErrors
    IN /\ Len(Output) >= Len(errs)
       /\ \A i \in DOMAIN errs : Output[i] = Stderr(ErrorForm(errs[i]) \o <<"\n">>)

\* C11: the first lines a list, run, uninstall or upgrade command writes are
\* one stderr line per ToolLoadError that discovery returned, in the order
\* of accumulation: the prefix "[firm-ai] tool load error: " followed by
\* `<name> (<entry_point>): <error>`. They come right after the discovery
\* call, before any other line, subprocess, tool run or cleanup of the
\* command, and no further such line is written.
C11_OneLinePerError ==
  last.key.op \in DiscoveryCommands =>
    LET errs == DiscoveryErrors
    IN /\ Len(Output) >= Len(errs)
       /\ \A i \in DOMAIN errs :
            /\ Output[i] = Stderr(<<"[firm-ai] tool load error: ">>
                                  \o ErrorForm(errs[i]) \o <<"\n">>)
            /\ Effects[i + 1] = Output[i]
       /\ \A i \in DOMAIN Output : i > Len(errs) => ~IsLoadErrorLine(Output[i])
       /\ errs # <<>> => Effects[1].ev = "discovery"

\* a command was handed two different errors and wrote more after them
C11_Witness ==
  /\ last.key.op \in {"run", "list"}
  /\ Len(DiscoveryErrors) >= 2
  /\ DiscoveryErrors[1] # DiscoveryErrors[2]
  /\ Len(Output) > Len(DiscoveryErrors)

-----------------------------------------------------------------------------
(* Properties of uninstall *)

\* n is "firm-ai" up to the case of its letters and to "_" for "-"
IsWrapperName(n) ==
  LET c == Chars(n)
      spellings == <<{"f", "F"}, {"i", "I"}, {"r", "R"}, {"m", "M"}, {"-", "_"},
                     {"a", "A"}, {"i", "I"}>>
  IN /\ Len(c) = Len(spellings)
     /\ \A i \in DOMAIN c : c[i] \in spellings[i]

\* the package name uninstall acts on for name: the resolved distribution
\* name, or name itself when nothing resolves
ActedOn(name) ==
  LET resolved == ResolveToolDistribution(name).name
  IN IF resolved \notin {None, Some("")} THEN resolved[1] ELSE name

\* the last word of a command line
Target(cmd) == cmd[Len(cmd)]

\* C12: when the package name uninstall acts on is the wrapper's after
\* normalisation, the command returns 2, starts no subprocess, runs no
\* cleanup and leaves the metadata file as it was; and no uninstall it ever
\* starts names the wrapper.
C12_UninstallRefusesWrapper ==
  LastIs("uninstall") =>
    /\ IsWrapperName(ActedOn(last.key.arg.name)) =>
         /\ last.ret.code = 2
         /\ ~Happened("subprocess")
         /\ ~Happened("cleanup")
         /\ last.ret.file = last.key.arg.file
    /\ \A i \in DOMAIN Subprocesses :
         Contains(Subprocesses[i].data, "uninstall") =>
           ~IsWrapperName(Target(Subprocesses[i].data))

\* a tool name that resolves to the wrapper's distribution, spelt Firm_AI,
\* was refused
C12_Witness ==
  /\ LastIs("uninstall")
  /\ last.key.arg.name = "a"
  /\ ActedOn("a") = "Firm_AI"
  /\ last.ret.code = 2
  /\ last.key.arg.outcome.kind = "ok"

\* the uninstall subprocesses of the command
Uninstalls ==
  SelectSeq(Effects, LAMBDA e : e.ev = "subprocess" /\ Contains(e.data, "uninstall"))
Position(ev) == {i \in DOMAIN Effects : Effects[i].ev = ev}

\* C13: an uninstall that is not refused starts the package manager's
\* uninstall exactly once, on the name it acts on (the provided name when
\* nothing resolves). When that returns 0 the command returns 0 and the
\* cleanup runs once, after it, for the same name; when it does not, the
\* command returns its non-zero code (1 when pipx cannot be started), no
\* cleanup runs and the metadata file is left as it was. A refused uninstall
\* runs no cleanup.
C13_CleanupOnlyAfterUninstall ==
  LastIs("uninstall") =>
    LET pkg == ActedOn(last.key.arg.name)
        o == last.key.arg.outcome
    IN IF IsWrapperName(pkg) THEN ~Happened("cleanup")
       ELSE /\ Len(Uninstalls) = 1
            /\ SubSeq(Uninstalls[1].data, Len(Uninstalls[1].data) - 4,
                      Len(Uninstalls[1].data))
                 = <<"runpip", "firm-ai", "uninstall", "-y", pkg>>
            /\ o.kind = "ok" =>
                 /\ last.ret.code = 0
                 /\ Cardinality(Position("cleanup")) = 1
                 /\ \A i \in Position("cleanup") :
                      /\ Effects[i].what = pkg
                      /\ \E j \in 1..(i - 1) : Effects[j] = Uninstalls[1]
            /\ o.kind # "ok" =>
                 /\ last.ret.code = (IF o.kind = "missing" THEN 1 ELSE o.returncode)
                 /\ last.ret.code # 0
                 /\ ~Happened("cleanup")
                 /\ last.ret.file = last.key.arg.file

\* a name that resolves to nothing was uninstalled as given, and the cleanup
\* took its key out of the metadata file
C13_Witness ==
  /\ LastIs("uninstall")
  /\ ResolveToolDistribution(last.key.arg.name).name = None
  /\ Happened("cleanup")
  /\ last.ret.code = 0
  /\ last.ret.file # last.key.arg.file
  /\ IterEntryPointsWithDist # <<>>

-----------------------------------------------------------------------------
(* Properties of upgrade *)

HasVcsPrefix(spec) ==
  \/ StartsWith(spec, "git+")
  \/ StartsWith(spec, "http://")
  \/ StartsWith(spec, "https://")

\* the spec upgrade ends with: the resolved distribution name when the spec
\* is no VCS or URL spec and a name is found, else the spec as given
UpgradeTarget(spec) ==
  LET resolved == ResolveToolDistribution(spec).name
  IN IF ~HasVcsPrefix(spec) /\ resolved \notin {None, Some("")} THEN resolved[1]
     ELSE spec

\* C14: upgrade calls resolve_tool_distribution, first of all, exactly when
\* the spec has none of the prefixes git+, http://, https://, and a VCS or
\* URL spec causes no discovery call at all; the spec it ends with is the
\* resolved name when one is found. When that is the wrapper's name after
\* normalisation the command returns 2 and starts no subprocess; otherwise
\* it starts one pip install --upgrade of that spec.
C14_UpgradeResolvesThenRefusesWrapper ==
  LastIs("upgrade") =>
    LET spec == last.key.arg.spec
        target == UpgradeTarget(spec)
    IN /\ HasVcsPrefix(spec) => ~Happened("discovery")
       /\ ~HasVcsPrefix(spec) =>
            /\ Effects[1] = Discovery("resolve_tool_distribution", spec)
            /\ Cardinality(Position("discovery")) = 1
       /\ IsWrapperName(target) => last.ret.code = 2 /\ Subprocesses = <<>>
       /\ ~IsWrapperName(target) =>
            /\ Len(Subprocesses) = 1
            /\ SubSeq(Subprocesses[1].data, Len(Subprocesses[1].data) - 4,
                      Len(Subprocesses[1].data))
                 = <<"runpip", "firm-ai", "install", "--upgrade", target>>

\* a tool name was replaced by the name of its distribution, found after a
\* failing entry point, and that package was upgraded
C14_Witness ==
  /\ LastIs("upgrade")
  /\ last.key.arg.spec = "b"
  /\ Len(Subprocesses) = 1
  /\ Target(Subprocesses[1].data) = "pkg-two"
  /\ DiscoveryErrors # <<>>
  /\ last.ret.code = 0

-----------------------------------------------------------------------------
(* Properties of run *)

ToolRuns == SelectSeq(Effects, LAMBDA e : e.ev = "run")

\* what the run function of a tool makes of the exit code
ExitCodeOf(tool) ==
  CASE tool.run.id = "f" -> 0
    [] tool.run.id = "five" -> 5
    [] OTHER -> 1

\* C15: when the requested name is in the mapping of load_tools, the run of
\* the tool held under it, and no other, is called exactly once, with the
\* arguments less one leading "--", and the exit code is its integer result,
\* or 1 when it raises or returns no integer; when the name is not in the
\* mapping no run is called and the exit code is 2. This holds whatever
\* errors load_tools returned.
C15_RunsTheRequestedToolOnce ==
  LastIs("run") =>
    LET tools == LoadTools.tools
        n == last.key.arg.tool
        given == last.key.arg.tool_args
        passed == IF given # <<>> /\ given[1] = "--"
                  THEN [i \in 1..(Len(given) - 1) |-> given[i + 1]] ELSE given
    IN IF n \in DOMAIN tools
         THEN /\ ToolRuns = <<RunTool(n, passed)>>
              /\ last.ret.code = ExitCodeOf(tools[n])
         ELSE /\ ToolRuns = <<>>
              /\ last.ret.code = 2

\* with a load error on record and two "--" given, the tool ran on the
\* arguments less one of them and its result 5 became the exit code
C15_Witness ==
  /\ LastIs("run")
  /\ DiscoveryErrors # <<>>
  /\ last.key.arg.tool_args = <<"--", "--", "x">>
  /\ ToolRuns = <<RunTool("b", <<"--", "x">>)>>
  /\ last.ret.code = 5

-----------------------------------------------------------------------------
(* Properties of list *)

Printed == SelectSeq(Effects, LAMBDA e : e.ev = "stdout")

\* C16: list returns 0 whatever errors discovery returned; with no resolved
\* tool it prints "No tools installed.", and otherwise one line per resolved
\* tool, in ascending order of the names, holding the name, the version of
\* the providing distribution and the description, separated by tabs.
C16_ListShowsNameVersionDescription ==
  LastIs("list") =>
    LET tools == LoadToolsWithVersions.tools
    IN /\ last.ret.code = 0
       /\ IF DOMAIN tools = {}
            THEN Printed = <<Stdout(<<"No tools installed.", "\n">>)>>
          ELSE /\ Len(Printed) = Cardinality(DOMAIN tools)
               /\ \A i \in DOMAIN Printed :
                    LET n == Printed[i].data[1]
                    IN /\ n \in DOMAIN tools
                       /\ Printed[i] = Stdout(<<n, "\t", tools[n].version, "\t",
                                                tools[n].tool.description, "\n">>)
               /\ \A i, j \in DOMAIN Printed :
                    i < j => StrLess(Printed[i].data[1], Printed[j].data[1])

\* two tools were listed, after a load error
C16_Witness ==
  /\ LastIs("list")
  /\ Len(Printed) = 2
  /\ DiscoveryErrors # <<>>
  /\ last.ret.code = 0

====
